---- MODULE Spec2Model ----
(***************************************************************************)
(* Model of the avax-mp-sdk client.                                        *)
(*   Trade Client  (src/src/index.ts, class MPSDK): one invocation of a    *)
(*     write operation at a time; every action runs the code from one      *)
(*     resumed `await` to the next one (or to the return / throw).         *)
(*   Query Client  (src/src/read.ts): the request body each read function  *)
(*     serialises with JSON.stringify.                                     *)
(* The helpers of ./utils/helpers, axios and the chain are the environment:*)
(* each awaited call either returns one of a small set of values or throws.*)
(***************************************************************************)
EXTENDS Integers, Sequences, FiniteSets, TLC

VARIABLES
    op,                    \* the write operation being invoked ("none" before the first)
    pc,                    \* the awaited call in flight, "idle" or "done"
    metadata,              \* buyNft's metadata argument
    approved,              \* "unknown" | "yes" | "no": what the approval-status query returned
    receiptObtained,       \* the approval transaction's receipt has been awaited
    res,                   \* res.data of the build request
    tx,                    \* the transaction handed to handleSignAndExecute
    transactionBlockBytes, \* what handleSignTransaction returned
    orderObject,           \* the argument of validateSignature
    txReceipt,             \* what handleSignAndExecute returned
    outcome,               \* "pending" | "returned" | "threw"
    result,                \* the value the promise resolved to
    thrown,                \* the message of the error the promise rejected with
    failedAt,              \* the step whose error ended the operation ("none" if none)
    calls,                 \* how many times each external call was issued in this invocation
    qOp,                   \* Query Client: the last read function called
    qArgs,                 \* Query Client: its arguments
    qBody                  \* Query Client: the request body it emitted (parsed JSON text)

tradeVars == <<op, pc, metadata, approved, receiptObtained, res, tx,
               transactionBlockBytes, orderObject, txReceipt, outcome, result,
               thrown, failedAt, calls>>
queryVars == <<qOp, qArgs, qBody>>
vars == <<op, pc, metadata, approved, receiptObtained, res, tx,
          transactionBlockBytes, orderObject, txReceipt, outcome, result,
          thrown, failedAt, calls, qOp, qArgs, qBody>>

----------------------------------------------------------------------------
(* Bounds *)

\* longest metadata.event_log.fees list tried
MaxFees == 2

----------------------------------------------------------------------------
(* JavaScript values *)

JUndef == [undef |-> TRUE]
JNull == [null |-> TRUE]
JStr(s) == [str |-> s]
JArr(s) == [arr |-> s]
JObj(pairs) == [obj |-> pairs]

\* JavaScript truthiness, as `a && b` and `c ? x : y` test it
Truthy(v) ==
    /\ v # JUndef
    /\ v # JNull
    /\ v # JStr("")
    /\ ("num" \in DOMAIN v => v.num # 0)

----------------------------------------------------------------------------
(* Trade Client: inputs and environment *)

BroadcastOps == {"buyNft", "acceptCollectionBid", "delistNFT", "cancelCollectionBid"}
SignOps == {"createCollectionBid", "listNFT"}
WriteOps == SignOps \cup BroadcastOps

\* Decimal strings are sequences of characters: 0..9 are the digits, 10 is any
\* character that is not a digit.
IsDecimal(s) == \A i \in 1..Len(s) : s[i] \in 0..9

RECURSIVE BigInt(_)
\* BigInt(string) of a decimal string (BigInt("") is 0n)
BigInt(s) ==
    IF s = <<>> THEN 0
    ELSE 10 * BigInt(SubSeq(s, 1, Len(s) - 1)) + s[Len(s)]

RECURSIVE SumFees(_)
\* fees.map(fee => BigInt(fee.amount)) summed left to right by reduce
SumFees(fees) ==
    IF fees = <<>> THEN 0
    ELSE SumFees(SubSeq(fees, 1, Len(fees) - 1)) + BigInt(fees[Len(fees)].amount)

\* the computation of totalAmountToPay throws (TypeError on a missing
\* event_log, SyntaxError on a string BigInt cannot convert)
TotalAmountThrows(md) ==
    \/ md.event_log = JUndef
    \/ ~IsDecimal(md.event_log.erc20TokenAmount)
    \/ \E i \in 1..Len(md.event_log.fees) : ~IsDecimal(md.event_log.fees[i].amount)

\* TotalAmountToPay with the fees left out of the sum
TotalAmountWithoutFees(md) == BigInt(md.event_log.erc20TokenAmount)

\* [erc20TokenAmount, ...fees].reduce((a, b) => a + b)
TotalAmountToPay(md) ==
    BigInt(md.event_log.erc20TokenAmount) + SumFees(md.event_log.fees)

ListedAmounts == {<<1, 0, 0, 0>>, <<7>>, <<>>, <<1, 10>>}
FeeAmounts == {<<5, 0>>, <<2, 5>>, <<10>>}
FeeLists ==
    UNION {[1..n -> [amount : FeeAmounts]] : n \in 0..MaxFees}
BuyMetadata ==
    {[event_log |-> JUndef]}
    \cup {[event_log |-> [erc20TokenAmount |-> a, fees |-> f]] :
            a \in ListedAmounts, f \in FeeLists}

OrderData == JObj(<<<<"id", JStr("o1")>>>>)
ByteString == JStr("0xf86b")

\* res.data of the build request: absent, an empty array, or an array whose
\* first element is an object
BuildResponses ==
    {JUndef, JArr(<<>>)}
    \cup {JArr(<<[metadata |-> m, byte_string |-> b]>>) :
            m \in {JUndef, JNull, OrderData},
            b \in {JUndef, JStr(""), ByteString}}

\* HasPayload with only the length of res.data tested
HasPayloadLengthOnly(data, field) ==
    /\ "arr" \in DOMAIN data
    /\ Len(data.arr) # 0

\* res.data?.length && res.data[0].<field>
HasPayload(data, field) ==
    /\ "arr" \in DOMAIN data
    /\ Len(data.arr) # 0
    /\ Truthy(data.arr[1][field])

\* ExpectedPayload with the sign path reading byte_string like the broadcast path
ExpectedPayloadAlwaysByteString(o) == "byte_string"

\* the payload each operation reads from the first element of res.data
ExpectedPayload(o) ==
    IF o \in SignOps THEN "metadata" ELSE "byte_string"

Receipts ==
    [status : {0, 1}, transactionHash : {JUndef, JStr("0xd1ce")}]

\* the text handleSignTransaction returns, as a sequence of tokens
SignedTexts(orderData) ==
    IF "obj" \in DOMAIN orderData
    THEN {<<"{", "order", orderData.obj[1][2].str, "signature", "0x5ig", "}">>,
          <<"{", "order", orderData.obj[1][2].str>>}
    ELSE {}

RECURSIVE ParsePairs(_)
ParsePairs(toks) ==
    IF toks = <<>> THEN <<>>
    ELSE <<<<toks[1], JStr(toks[2])>>>> \o ParsePairs(SubSeq(toks, 3, Len(toks)))

\* JSON.parse of such a text throws a SyntaxError
JSONParseThrows(text) ==
    \/ Len(text) < 2
    \/ text[1] # "{"
    \/ text[Len(text)] # "}"
    \/ (Len(text) - 2) % 2 # 0

\* JSON.parse of a well-formed text
JSONParse(text) == JObj(ParsePairs(SubSeq(text, 2, Len(text) - 1)))

ValidationResponses ==
    {[status |-> 200, data |-> JStr("valid")], [status |-> 200, data |-> JStr("invalid")]}

HttpErrors == {"Request failed with status code 500", "Network Error"}

CallNames ==
    {"getWavaxBalance", "getWavaxApprovalStatus", "approveWavax",
     "getERC721ApprovalStatus", "approveErc721", "build",
     "handleSignTransaction", "validateSignature", "handleSignAndExecute"}
NoCalls == [c \in CallNames |-> 0]

----------------------------------------------------------------------------
(* Trade Client: the write operations *)

\* CaughtByTry with delistNFT's body outside any try block
CaughtByTryExceptDelist(o) == o \in BroadcastOps \ {"delistNFT"}

\* the operation's body runs inside try { ... } catch (error) { return {digest: null, errors: error.message} }
CaughtByTry(o) == o \in BroadcastOps

\* HasApprovalPreCheck with delistNFT checking approval as listNFT does
HasApprovalPreCheckWithDelist(o) ==
    o \in {"createCollectionBid", "listNFT", "acceptCollectionBid", "delistNFT"}

\* the operation starts with an approval pre-check
HasApprovalPreCheck(o) == o \in {"createCollectionBid", "listNFT", "acceptCollectionBid"}

\* NeedsApproveTx with the approval transaction never sent
NeverApprove(isApproved) == FALSE

\* NeedsApproveTx with the approval transaction sent whatever the status
AlwaysApprove(isApproved) == TRUE

\* if (!approved) { await approve...(...) }
NeedsApproveTx(isApproved) == ~isApproved

\* the receipt test that makes a broadcast a success
ReceiptOk(o, receipt) ==
    IF o \in {"buyNft", "acceptCollectionBid"}
    THEN receipt.status = 1 /\ Truthy(receipt.transactionHash)
    ELSE Truthy(receipt.transactionHash)

\* the transaction object passed to handleSignAndExecute
BuildTx(o, encodedTransaction, md) ==
    IF o = "buyNft"
    THEN [data |-> encodedTransaction, value |-> TotalAmountToPay(md)]
    ELSE [data |-> encodedTransaction]

BroadcastFailedMessage(o) ==
    CASE o = "buyNft" -> "Failed to sign and execute purchase transaction"
      [] o = "acceptCollectionBid" -> "Failed to sign and execute accept collection bid transaction"
      [] o = "delistNFT" -> "Failed to sign and execute delist transaction"
      [] o = "cancelCollectionBid" -> "Failed to sign and execute cancel collection bid transaction"

\* the object returned when the build response carries no byte_string
BuildFailedResult(o) ==
    CASE o = "buyNft" ->
            [digest |-> JNull, tokensPurchased |-> <<>>,
             errors |-> JStr("Failed to create buy txn")]
      [] o = "acceptCollectionBid" ->
            [digest |-> JNull, tokensPurchased |-> <<>>,
             errors |-> JStr("Failed to create accept collection bid txn")]
      [] o = "delistNFT" ->
            [digest |-> JNull, errors |-> JStr("Failed to create delist txn")]
      [] o = "cancelCollectionBid" ->
            [digest |-> JNull, errors |-> JStr("Failed to create cancel collection bid txn")]

\* issue the awaited call c
Await(c) ==
    /\ pc' = c
    /\ calls' = [calls EXCEPT ![c] = @ + 1]

\* return v
Return(v) ==
    /\ pc' = "done"
    /\ outcome' = "returned"
    /\ result' = v
    /\ UNCHANGED <<thrown, failedAt>>

\* an error with message msg is thrown at step `stage`
Throw(stage, msg) ==
    /\ pc' = "done"
    /\ failedAt' = stage
    /\ IF CaughtByTry(op)
       THEN /\ outcome' = "returned"
            /\ result' = [digest |-> JNull, errors |-> JStr(msg)]
            /\ UNCHANGED thrown
       ELSE /\ outcome' = "threw"
            /\ thrown' = JStr(msg)
            /\ UNCHANGED result

\* the first awaited call of operation o
FirstCall(o) ==
    IF ~HasApprovalPreCheck(o) THEN "build"
    ELSE IF o = "createCollectionBid" THEN "getWavaxBalance"
    ELSE "getERC721ApprovalStatus"

\* a new invocation of operation o with metadata argument md, up to its first await
Begin(o, md) ==
    /\ op' = o
    /\ metadata' = md
    /\ pc' = FirstCall(o)
    /\ calls' = [NoCalls EXCEPT ![FirstCall(o)] = 1]
    /\ approved' = "unknown"
    /\ receiptObtained' = FALSE
    /\ res' = JUndef
    /\ tx' = JUndef
    /\ transactionBlockBytes' = JUndef
    /\ orderObject' = JUndef
    /\ txReceipt' = JUndef
    /\ outcome' = "pending"
    /\ result' = JUndef
    /\ thrown' = JUndef
    /\ failedAt' = "none"
    /\ UNCHANGED queryVars

NoMetadata == [event_log |-> JUndef]

createCollectionBid ==
    /\ pc \in {"idle", "done"}
    /\ Begin("createCollectionBid", NoMetadata)

listNFT ==
    /\ pc \in {"idle", "done"}
    /\ Begin("listNFT", NoMetadata)

buyNft ==
    /\ pc \in {"idle", "done"}
    /\ \E md \in BuyMetadata : Begin("buyNft", md)

acceptCollectionBid ==
    /\ pc \in {"idle", "done"}
    /\ Begin("acceptCollectionBid", NoMetadata)

delistNFT ==
    /\ pc \in {"idle", "done"}
    /\ Begin("delistNFT", NoMetadata)

cancelCollectionBid ==
    /\ pc \in {"idle", "done"}
    /\ Begin("cancelCollectionBid", NoMetadata)

WavaxBalanceReturns ==
    /\ pc = "getWavaxBalance"
    /\ Await("getWavaxApprovalStatus")
    /\ UNCHANGED <<op, metadata, approved, receiptObtained, res, tx,
                   transactionBlockBytes, orderObject, txReceipt, outcome, result,
                   thrown, failedAt, queryVars>>

WavaxBalanceThrows ==
    /\ pc = "getWavaxBalance"
    /\ Throw("getWavaxBalance", "could not read balance")
    /\ UNCHANGED <<op, metadata, approved, receiptObtained, res, tx,
                   transactionBlockBytes, orderObject, txReceipt, calls, queryVars>>

ApprovalStatusReturns ==
    /\ pc \in {"getWavaxApprovalStatus", "getERC721ApprovalStatus"}
    /\ \E isApproved \in BOOLEAN :
          /\ approved' = IF isApproved THEN "yes" ELSE "no"
          /\ IF NeedsApproveTx(isApproved)
             THEN Await(IF op = "createCollectionBid" THEN "approveWavax" ELSE "approveErc721")
             ELSE Await("build")
    /\ UNCHANGED <<op, metadata, receiptObtained, res, tx,
                   transactionBlockBytes, orderObject, txReceipt, outcome, result,
                   thrown, failedAt, queryVars>>

ApprovalStatusThrows ==
    /\ pc \in {"getWavaxApprovalStatus", "getERC721ApprovalStatus"}
    /\ Throw(pc, "call revert exception")
    /\ UNCHANGED <<op, metadata, approved, receiptObtained, res, tx,
                   transactionBlockBytes, orderObject, txReceipt, calls, queryVars>>

ApproveReturns ==
    /\ pc \in {"approveWavax", "approveErc721"}
    /\ receiptObtained' = TRUE
    /\ Await("build")
    /\ UNCHANGED <<op, metadata, approved, res, tx,
                   transactionBlockBytes, orderObject, txReceipt, outcome, result,
                   thrown, failedAt, queryVars>>

ApproveThrows ==
    /\ pc \in {"approveWavax", "approveErc721"}
    /\ Throw(pc, "transaction failed")
    /\ UNCHANGED <<op, metadata, approved, receiptObtained, res, tx,
                   transactionBlockBytes, orderObject, txReceipt, calls, queryVars>>

BuildReturns ==
    /\ pc = "build"
    /\ \E data \in BuildResponses :
          /\ res' = data
          /\ IF op = "buyNft" /\ TotalAmountThrows(metadata)
             THEN /\ Throw("totalAmountToPay", "Cannot convert to a BigInt")
                  /\ UNCHANGED <<tx, calls>>
             ELSE IF HasPayload(data, ExpectedPayload(op))
             THEN IF op \in SignOps
                  THEN /\ Await("handleSignTransaction")
                       /\ UNCHANGED <<tx, outcome, result, thrown, failedAt>>
                  ELSE /\ tx' = BuildTx(op, data.arr[1].byte_string, metadata)
                       /\ Await("handleSignAndExecute")
                       /\ UNCHANGED <<outcome, result, thrown, failedAt>>
             ELSE /\ Return(IF op \in SignOps THEN JUndef ELSE BuildFailedResult(op))
                  /\ UNCHANGED <<tx, calls>>
    /\ UNCHANGED <<op, metadata, approved, receiptObtained,
                   transactionBlockBytes, orderObject, txReceipt, queryVars>>

BuildThrows ==
    /\ pc = "build"
    /\ \E msg \in HttpErrors : Throw("build", msg)
    /\ UNCHANGED <<op, metadata, approved, receiptObtained, res, tx,
                   transactionBlockBytes, orderObject, txReceipt, calls, queryVars>>

SignTransactionReturns ==
    /\ pc = "handleSignTransaction"
    /\ \E text \in SignedTexts(res.arr[1].metadata) :
          /\ transactionBlockBytes' = text
          /\ IF JSONParseThrows(text)
             THEN /\ Throw("JSON.parse", "Unexpected end of JSON input")
                  /\ UNCHANGED <<orderObject, calls>>
             ELSE /\ orderObject' = JSONParse(text)
                  /\ Await("validateSignature")
                  /\ UNCHANGED <<outcome, result, thrown, failedAt>>
    /\ UNCHANGED <<op, metadata, approved, receiptObtained, res, tx, txReceipt,
                   queryVars>>

SignTransactionThrows ==
    /\ pc = "handleSignTransaction"
    /\ Throw("handleSignTransaction", "user rejected signing")
    /\ UNCHANGED <<op, metadata, approved, receiptObtained, res, tx,
                   transactionBlockBytes, orderObject, txReceipt, calls, queryVars>>

ValidateSignatureReturns ==
    /\ pc = "validateSignature"
    /\ \E isValidRes \in ValidationResponses : Return(isValidRes)
    /\ UNCHANGED <<op, metadata, approved, receiptObtained, res, tx,
                   transactionBlockBytes, orderObject, txReceipt, calls, queryVars>>

ValidateSignatureThrows ==
    /\ pc = "validateSignature"
    /\ \E msg \in HttpErrors : Throw("validateSignature", msg)
    /\ UNCHANGED <<op, metadata, approved, receiptObtained, res, tx,
                   transactionBlockBytes, orderObject, txReceipt, calls, queryVars>>

SignAndExecuteReturns ==
    /\ pc = "handleSignAndExecute"
    /\ \E receipt \in Receipts :
          /\ txReceipt' = receipt
          /\ IF ReceiptOk(op, receipt)
             THEN Return([digest |-> receipt.transactionHash, errors |-> JNull])
             ELSE Return([digest |-> JNull, errors |-> JStr(BroadcastFailedMessage(op))])
    /\ UNCHANGED <<op, metadata, approved, receiptObtained, res, tx,
                   transactionBlockBytes, orderObject, calls, queryVars>>

SignAndExecuteThrows ==
    /\ pc = "handleSignAndExecute"
    /\ Throw("handleSignAndExecute", "insufficient funds for gas")
    /\ UNCHANGED <<op, metadata, approved, receiptObtained, res, tx,
                   transactionBlockBytes, orderObject, txReceipt, calls, queryVars>>

Init ==
    /\ op = "none"
    /\ pc = "idle"
    /\ metadata = NoMetadata
    /\ approved = "unknown"
    /\ receiptObtained = FALSE
    /\ res = JUndef
    /\ tx = JUndef
    /\ transactionBlockBytes = JUndef
    /\ orderObject = JUndef
    /\ txReceipt = JUndef
    /\ outcome = "pending"
    /\ result = JUndef
    /\ thrown = JUndef
    /\ failedAt = "none"
    /\ calls = NoCalls
    /\ qOp = "none"
    /\ qArgs = JUndef
    /\ qBody = JUndef

Next ==
    \/ createCollectionBid
    \/ listNFT
    \/ buyNft
    \/ acceptCollectionBid
    \/ delistNFT
    \/ cancelCollectionBid
    \/ WavaxBalanceReturns
    \/ WavaxBalanceThrows
    \/ ApprovalStatusReturns
    \/ ApprovalStatusThrows
    \/ ApproveReturns
    \/ ApproveThrows
    \/ BuildReturns
    \/ BuildThrows
    \/ SignTransactionReturns
    \/ SignTransactionThrows
    \/ ValidateSignatureReturns
    \/ ValidateSignatureThrows
    \/ SignAndExecuteReturns
    \/ SignAndExecuteThrows

Spec == Init /\ [][Next]_vars

----------------------------------------------------------------------------
(* Query Client *)

RECURSIVE JSONStringify(_), StringifyPairs(_)
\* JSON.stringify(v), given as the tree a JSON parser reads back from the
\* text: a property whose value is undefined is left out of its object, and
\* an undefined array element is written as null
JSONStringify(v) ==
    IF "obj" \in DOMAIN v THEN JObj(StringifyPairs(v.obj))
    ELSE IF "arr" \in DOMAIN v
    THEN JArr([i \in 1..Len(v.arr) |->
                 IF v.arr[i] = JUndef THEN JNull ELSE JSONStringify(v.arr[i])])
    ELSE v

StringifyPairs(pairs) ==
    IF pairs = <<>> THEN <<>>
    ELSE IF pairs[1][2] = JUndef THEN StringifyPairs(Tail(pairs))
    ELSE <<<<pairs[1][1], JSONStringify(pairs[1][2])>>>> \o StringifyPairs(Tail(pairs))

Wallets == {JStr("0xW1"), JStr("0xW2")}
Collections == {JStr("X"), JStr("Y")}
OptCollections == Collections \cup {JUndef, JStr("")}
OptPaginations ==
    {JUndef,
     JObj(<<<<"page_number", [num |-> 1]>>, <<"page_size", [num |-> 10]>>>>),
     JObj(<<<<"page_number", [num |-> 2]>>, <<"page_size", JUndef>>>>)}
OptActionTypes == {JUndef, JArr(<<>>), JArr(<<JStr("LISTING"), JStr("BID")>>)}
OptOrderBys ==
    {JUndef,
     JArr(<<>>),
     JArr(<<JObj(<<<<"field_name", JStr("floor_price")>>, <<"sort_order", JStr("DESC")>>>>)>>)}

getUserOwnedNFTsBody(walletAddress, collection, pagination) ==
    JSONStringify(
        IF Truthy(collection)
        THEN JObj(<<
                <<"condition", JObj(<<
                    <<"owner", walletAddress>>,
                    <<"project_ids", JArr(<<JObj(<<<<"project_id", collection>>>>)>>)>> >>)>>,
                <<"pagination_info", pagination>> >>)
        ELSE JObj(<<
                <<"condition", JObj(<< <<"owner", walletAddress>> >>)>>,
                <<"pagination_info", pagination>> >>))

getCollectionBidsBody(collection, pagination) ==
    JSONStringify(JObj(<<
        <<"condition", JObj(<< <<"contract_address", collection>> >>)>>,
        <<"pagination_info", pagination>> >>))

getUserCollectionBidsBody(collection, walletAddress, pagination) ==
    JSONStringify(JObj(<<
        <<"condition", JObj(<<
            <<"contract_address", collection>>,
            <<"buyer_address", walletAddress>> >>)>>,
        <<"pagination_info", pagination>> >>))

getUserListingsBody(walletAddress, collection, pagination) ==
    JSONStringify(JObj(<<
        <<"condition", JObj(<<
            <<"owner", walletAddress>>,
            <<"project_ids", JArr(<<JObj(<<<<"project_id", collection>>>>)>>)>>,
            <<"listing_type", JStr("NORMAL")>> >>)>>,
        <<"pagination_info", pagination>> >>))

getCollectionActivityBody(collection, actionTypes, pagination) ==
    JSONStringify(JObj(<<
        <<"condition", JObj(<<
            <<"projects", JArr(<<JObj(<<<<"project_id", collection>>>>)>>)>>,
            <<"action_types", actionTypes>> >>)>>,
        <<"pagination_info", pagination>> >>))

getCollectionListingsBody(collection, orderBy, pagination) ==
    JSONStringify(JObj(<<
        <<"condition", JObj(<<
            <<"project_ids", JArr(<<JObj(<<<<"project_id", collection>>>>)>>)>>,
            <<"listing_type", JStr("NORMAL")>> >>)>>,
        <<"order_by", orderBy>>,
        <<"pagination_info", pagination>> >>))

getUserActivityBody(walletAddress, actionTypes, pagination) ==
    JSONStringify(JObj(<<
        <<"condition", JObj(<<
            <<"user_address", walletAddress>>,
            <<"action_types", actionTypes>> >>)>>,
        <<"pagination_info", pagination>> >>))

getCollectionStatsBody(collection, orderBy, pagination) ==
    JSONStringify(
        IF Truthy(collection)
        THEN JObj(<<
                <<"condition", JObj(<< <<"project_ids", JArr(<<collection>>)>> >>)>>,
                <<"order_by", orderBy>>,
                <<"pagination_info", pagination>> >>)
        ELSE JObj(<<
                <<"order_by", orderBy>>,
                <<"pagination_info", pagination>> >>))

getUserOwnedNFTs ==
    \E w \in Wallets, c \in OptCollections, p \in OptPaginations :
        /\ qOp' = "getUserOwnedNFTs"
        /\ qArgs' = [walletAddress |-> w, collection |-> c, pagination |-> p]
        /\ qBody' = getUserOwnedNFTsBody(w, c, p)
        /\ UNCHANGED tradeVars

getCollectionBids ==
    \E c \in Collections, p \in OptPaginations :
        /\ qOp' = "getCollectionBids"
        /\ qArgs' = [collection |-> c, pagination |-> p]
        /\ qBody' = getCollectionBidsBody(c, p)
        /\ UNCHANGED tradeVars

getUserCollectionBids ==
    \E c \in Collections, w \in Wallets, p \in OptPaginations :
        /\ qOp' = "getUserCollectionBids"
        /\ qArgs' = [collection |-> c, walletAddress |-> w, pagination |-> p]
        /\ qBody' = getUserCollectionBidsBody(c, w, p)
        /\ UNCHANGED tradeVars

getUserListings ==
    \E w \in Wallets, c \in OptCollections, p \in OptPaginations :
        /\ qOp' = "getUserListings"
        /\ qArgs' = [walletAddress |-> w, collection |-> c, pagination |-> p]
        /\ qBody' = getUserListingsBody(w, c, p)
        /\ UNCHANGED tradeVars

getCollectionActivity ==
    \E c \in Collections, a \in OptActionTypes, p \in OptPaginations :
        /\ qOp' = "getCollectionActivity"
        /\ qArgs' = [collection |-> c, actionTypes |-> a, pagination |-> p]
        /\ qBody' = getCollectionActivityBody(c, a, p)
        /\ UNCHANGED tradeVars

getCollectionListings ==
    \E c \in Collections, o \in OptOrderBys, p \in OptPaginations :
        /\ qOp' = "getCollectionListings"
        /\ qArgs' = [collection |-> c, orderBy |-> o, pagination |-> p]
        /\ qBody' = getCollectionListingsBody(c, o, p)
        /\ UNCHANGED tradeVars

getUserActivity ==
    \E w \in Wallets, a \in OptActionTypes, p \in OptPaginations :
        /\ qOp' = "getUserActivity"
        /\ qArgs' = [walletAddress |-> w, actionTypes |-> a, pagination |-> p]
        /\ qBody' = getUserActivityBody(w, a, p)
        /\ UNCHANGED tradeVars

getCollectionStats ==
    \E c \in OptCollections, o \in OptOrderBys, p \in OptPaginations :
        /\ qOp' = "getCollectionStats"
        /\ qArgs' = [collection |-> c, orderBy |-> o, pagination |-> p]
        /\ qBody' = getCollectionStatsBody(c, o, p)
        /\ UNCHANGED tradeVars

NextQuery ==
    \/ getUserOwnedNFTs
    \/ getCollectionBids
    \/ getUserCollectionBids
    \/ getUserListings
    \/ getCollectionActivity
    \/ getCollectionListings
    \/ getUserActivity
    \/ getCollectionStats

SpecQuery == Init /\ [][NextQuery]_vars

----------------------------------------------------------------------------
(* Properties *)

ApprovalStages ==
    {"getWavaxBalance", "getWavaxApprovalStatus", "approveWavax",
     "getERC721ApprovalStatus", "approveErc721"}
TransactionalStages ==
    {"build", "totalAmountToPay", "handleSignTransaction", "JSON.parse",
     "validateSignature", "handleSignAndExecute"}

\* the operation resolved to {digest: null, errors: <non-empty string>}
NormalizedError ==
    /\ outcome = "returned"
    /\ "digest" \in DOMAIN result
    /\ result.digest = JNull
    /\ "str" \in DOMAIN result.errors
    /\ result.errors.str # ""

\* C1: buyNft, acceptCollectionBid, delistNFT and cancelCollectionBid never
\* end by throwing, and when a step of the transactional phase (the build
\* request, the payment computation, signing/broadcasting) fails they
\* resolve to digest = null with a non-empty errors string.
C1_BroadcastErrorsNormalized ==
    (op \in BroadcastOps /\ pc = "done") =>
        /\ outcome = "returned"
        /\ failedAt \in TransactionalStages => NormalizedError

C1_Witness ==
    /\ op = "delistNFT"
    /\ pc = "done"
    /\ failedAt = "handleSignAndExecute"
    /\ result = [digest |-> JNull, errors |-> JStr("insufficient funds for gas")]

\* C2: in createCollectionBid, listNFT and acceptCollectionBid an error of
\* the approval-status query or of the approval transaction reaches the
\* caller as the thrown error, never as a {digest: null, errors} result.
C2_ApprovalErrorsPropagate ==
    (HasApprovalPreCheck(op) /\ pc = "done" /\ failedAt \in ApprovalStages) =>
        /\ outcome = "threw"
        /\ "str" \in DOMAIN thrown

\* C3: in createCollectionBid, listNFT and acceptCollectionBid the build
\* request is issued only once the approval-status query has returned and,
\* if it said not approved, the approval receipt has been obtained; no build
\* request has been issued while an approval step is in flight, and none is
\* issued when the approval step fails.
C3_BuildAfterApproval ==
    HasApprovalPreCheck(op) =>
        /\ calls["build"] > 0 =>
              /\ approved # "unknown"
              /\ approved = "no" => receiptObtained
        /\ pc \in ApprovalStages => calls["build"] = 0
        /\ failedAt \in ApprovalStages => calls["build"] = 0

C3_Witness ==
    /\ op = "listNFT"
    /\ approved = "no"
    /\ receiptObtained
    /\ pc = "build"
    /\ calls["build"] = 1

\* C4: if the approval-status check reported already-approved, no approval
\* transaction is submitted; one is submitted only if it reported not-approved.
C4_ApprovalIdempotence ==
    /\ approved = "yes" => (calls["approveWavax"] = 0 /\ calls["approveErc721"] = 0)
    /\ (calls["approveWavax"] > 0 \/ calls["approveErc721"] > 0) => approved = "no"

C4_Witness ==
    /\ op = "createCollectionBid"
    /\ approved = "yes"
    /\ calls["build"] = 1
    /\ calls["approveWavax"] = 0

\* C5: a broadcast-path operation whose broadcast returned a receipt
\* resolves to {digest: <hash>, errors: null} exactly when the receipt has
\* status 1 and a hash, and to {digest: null, errors: <message>} otherwise.
C5_DigestIffReceiptSucceeded ==
    (op \in BroadcastOps /\ pc = "done" /\ txReceipt # JUndef) =>
        IF txReceipt.status = 1 /\ txReceipt.transactionHash # JUndef
        THEN result = [digest |-> txReceipt.transactionHash, errors |-> JNull]
        ELSE NormalizedError

\* C6: the transaction buyNft broadcasts has value = erc20TokenAmount + the
\* sum of all fee amounts (1000 with fees 50 and 25 gives 1075; no fees
\* gives the listed amount); the other broadcast operations send no value.
C6_BuyValueIsAmountPlusFees ==
    tx # JUndef =>
        IF op = "buyNft"
        THEN LET amount == metadata.event_log.erc20TokenAmount
                 fees == metadata.event_log.fees
                 dec(s) == LET f[i \in 0..Len(s)] ==
                                   IF i = 0 THEN 0 ELSE 10 * f[i - 1] + s[i]
                           IN f[Len(s)]
                 sum[i \in 0..Len(fees)] ==
                     IF i = 0 THEN 0 ELSE sum[i - 1] + dec(fees[i].amount)
             IN /\ "value" \in DOMAIN tx
                /\ tx.value = dec(amount) + sum[Len(fees)]
                /\ fees = <<>> => tx.value = dec(amount)
                /\ (amount = <<1, 0, 0, 0>>
                      /\ fees = <<[amount |-> <<5, 0>>], [amount |-> <<2, 5>>]>>)
                   => tx.value = 1075
        ELSE "value" \notin DOMAIN tx

C6_Witness ==
    /\ op = "buyNft"
    /\ pc = "handleSignAndExecute"
    /\ metadata.event_log # JUndef
    /\ metadata.event_log.erc20TokenAmount = <<1, 0, 0, 0>>
    /\ metadata.event_log.fees = <<[amount |-> <<5, 0>>], [amount |-> <<2, 5>>]>>
    /\ tx = [data |-> ByteString, value |-> 1075]

C8_SignPathErrorsNormalized ==
    (op \in SignOps /\ pc = "done" /\ failedAt \in TransactionalStages) =>
        NormalizedError

\* C9 (as stated): listNFT, delistNFT and acceptCollectionBid all query the
\* NFT approval state (and obtain approval if absent) before their build
\* request is issued.
C9_AllNftOpsCheckApproval ==
    (op \in {"listNFT", "delistNFT", "acceptCollectionBid"} /\ calls["build"] > 0) =>
        /\ calls["getERC721ApprovalStatus"] = 1
        /\ approved = "yes" \/ receiptObtained

\* C9 (amended): listNFT and acceptCollectionBid query the NFT approval
\* state and, if absent, obtain approval before their build request;
\* delistNFT makes no approval query and submits no approval transaction.
C9_ListAndAcceptCheckApproval ==
    /\ (op \in {"listNFT", "acceptCollectionBid"} /\ calls["build"] > 0) =>
          /\ calls["getERC721ApprovalStatus"] = 1
          /\ approved = "yes" \/ receiptObtained
    /\ op = "delistNFT" =>
          /\ calls["getERC721ApprovalStatus"] = 0
          /\ calls["approveErc721"] = 0
          /\ approved = "unknown"

C9_Witness ==
    /\ op = "delistNFT"
    /\ pc = "done"
    /\ calls["handleSignAndExecute"] = 1
    /\ calls["getERC721ApprovalStatus"] = 0
    /\ result = [digest |-> JStr("0xd1ce"), errors |-> JNull]

\* field k of the JSON object o is present
HasKey(o, k) == \E i \in 1..Len(o.obj) : o.obj[i][1] = k

\* the value of field k of the JSON object o
Get(o, k) == o.obj[CHOOSE i \in 1..Len(o.obj) : o.obj[i][1] = k][2]

\* C10: every read function's request body omits each optional field whose
\* parameter was not supplied: getCollectionStats without a collection has
\* no condition and with collection X has condition.project_ids = [X];
\* getUserOwnedNFTs and getUserListings without a collection have a
\* condition without project_ids; activity queries without actionTypes have
\* no action_types; order_by / pagination_info are absent when orderBy /
\* pagination are not supplied.
C10_OptionalFieldsOmitted ==
    qOp # "none" =>
        /\ qOp = "getCollectionStats" =>
              /\ qArgs.collection = JUndef => ~HasKey(qBody, "condition")
              /\ qArgs.collection \in Collections =>
                    /\ HasKey(qBody, "condition")
                    /\ HasKey(Get(qBody, "condition"), "project_ids")
                    /\ Get(Get(qBody, "condition"), "project_ids")
                          = JArr(<<qArgs.collection>>)
        /\ (qOp \in {"getUserOwnedNFTs", "getUserListings"}
              /\ qArgs.collection = JUndef) =>
              /\ HasKey(qBody, "condition")
              /\ ~HasKey(Get(qBody, "condition"), "project_ids")
        /\ (qOp \in {"getCollectionActivity", "getUserActivity"}
              /\ qArgs.actionTypes = JUndef) =>
              ~HasKey(Get(qBody, "condition"), "action_types")
        /\ (qOp \in {"getCollectionListings", "getCollectionStats"}
              /\ qArgs.orderBy = JUndef) =>
              ~HasKey(qBody, "order_by")
        /\ qArgs.pagination = JUndef => ~HasKey(qBody, "pagination_info")

\* C11: one invocation of a write operation issues at most one build request
\* and signs/broadcasts at most one transaction (or signs and validates at
\* most one order); it signs, broadcasts or validates only after the build
\* request returned a non-empty array whose first element carries the
\* expected payload (byte_string for buyNft, acceptCollectionBid, delistNFT,
\* cancelCollectionBid; metadata for createCollectionBid, listNFT); after a
\* failed or empty build response nothing is signed, broadcast or validated.
C11_NoRetriesAndPayloadFirst ==
    LET submitted == calls["handleSignAndExecute"] + calls["handleSignTransaction"]
                        + calls["validateSignature"]
        carries(field) == /\ "arr" \in DOMAIN res
                          /\ res.arr # <<>>
                          /\ res.arr[1][field] \notin {JUndef, JNull, JStr("")}
    IN
    /\ calls["build"] <= 1
    /\ calls["handleSignAndExecute"] <= 1
    /\ calls["handleSignTransaction"] <= 1
    /\ calls["validateSignature"] <= 1
    /\ submitted > 0 => calls["build"] = 1
    /\ calls["handleSignAndExecute"] > 0 => (op \in BroadcastOps /\ carries("byte_string"))
    /\ (calls["handleSignTransaction"] > 0 \/ calls["validateSignature"] > 0) =>
          (op \in SignOps /\ carries("metadata"))
    /\ failedAt = "build" => submitted = 0
    /\ (pc = "done" /\ calls["build"] = 1 /\ failedAt # "build"
          /\ ~carries(IF op \in SignOps THEN "metadata" ELSE "byte_string")) =>
          submitted = 0

C11_Witness ==
    /\ op = "cancelCollectionBid"
    /\ pc = "done"
    /\ calls["build"] = 1
    /\ calls["handleSignAndExecute"] = 1
    /\ res = JArr(<<[metadata |-> JUndef, byte_string |-> ByteString]>>)
    /\ result = [digest |-> JStr("0xd1ce"), errors |-> JNull]

====
